---- MODULE Spec2Model ----
(***************************************************************************)
(* Model of src/main.rs of ruffman: frequency counting, Huffman tree       *)
(* construction over a BinaryHeap<Reverse<Node>> ordered by the derived    *)
(* Ord of Node, code-table derivation, payload encoding, the bit-by-bit    *)
(* decode walk, and the NodeBytes tree serializer / deserializer.          *)
(*                                                                         *)
(* A char is modelled by its code point (a natural number).  A Vec is a    *)
(* sequence.  A BinaryHeap is a sequence in push order whose pop removes   *)
(* the greatest element; under Reverse that is the least Node of the       *)
(* derived order.  A HashMap is a function on its key set.                 *)
(***************************************************************************)
EXTENDS Integers, Sequences, FiniteSets, TLC

\* ---- bounds -------------------------------------------------------------
NumSymbols == 4
MaxLen == 5
MaxCount == 3

Alphabet == 1..NumSymbols

\* ---- Node (main.rs 15-41) -----------------------------------------------
\* Option<Box<Node>>::None
NoneNode == [kind |-> "None"]

LeafNode(w, s) == [kind |-> "Leaf", weight |-> w, symb |-> s]

InternalNode(l, r, w) == [kind |-> "Internal", left |-> l, right |-> r, weight |-> w]

IsLeaf(n) == n.kind = "Leaf"

IsInternal(n) == n.kind = "Internal"

\* HasWeight::weight
weight(n) == n.weight

CmpInt(a, b) == IF a < b THEN 0 - 1 ELSE IF a > b THEN 1 ELSE 0

\* discriminant order of the derived Ord: None < Some, Leaf < Internal
Rank(n) == IF n.kind = "None" THEN 0 ELSE IF n.kind = "Leaf" THEN 1 ELSE 2

\* #[derive(Ord)]: variants by declaration order, then fields in
\* declaration order: LeafNode (weight, symb); InternalNode (left, right, weight)
RECURSIVE Cmp(_, _)
Cmp(a, b) ==
    IF Rank(a) # Rank(b) THEN CmpInt(Rank(a), Rank(b))
    ELSE IF a.kind = "None" THEN 0
    ELSE IF a.kind = "Leaf" THEN
        IF a.weight # b.weight THEN CmpInt(a.weight, b.weight)
        ELSE CmpInt(a.symb, b.symb)
    ELSE LET cl == Cmp(a.left, b.left) IN
         IF cl # 0 THEN cl
         ELSE LET cr == Cmp(a.right, b.right) IN
              IF cr # 0 THEN cr
              ELSE CmpInt(a.weight, b.weight)

\* ---- BinaryHeap<Reverse<Node>> ------------------------------------------
\* index of the element pop() returns: the least Node of the derived order
PopIndex(h) == CHOOSE i \in 1..Len(h) : \A j \in 1..Len(h) : Cmp(h[i], h[j]) <= 0

Remove(h, i) == [k \in 1..(Len(h) - 1) |-> IF k < i THEN h[k] ELSE h[k + 1]]

HeapTop(h) == h[PopIndex(h)]

HeapRest(h) == Remove(h, PopIndex(h))

\* ---- calc_freq (main.rs 190-206) ----------------------------------------
Position(freqs, c) ==
    IF \E i \in 1..Len(freqs) : freqs[i][1] = c
    THEN CHOOSE i \in 1..Len(freqs) :
            freqs[i][1] = c /\ \A j \in 1..(i - 1) : freqs[j][1] # c
    ELSE 0

RECURSIVE calc_freq_from(_, _, _)
calc_freq_from(inp, k, freqs) ==
    IF k > Len(inp) THEN freqs
    ELSE LET pos == Position(freqs, inp[k]) IN
         IF pos # 0
         THEN calc_freq_from(inp, k + 1,
                  [freqs EXCEPT ![pos] = <<freqs[pos][1], freqs[pos][2] + 1>>])
         ELSE calc_freq_from(inp, k + 1, Append(freqs, <<inp[k], 1>>))

calc_freq(inp) == calc_freq_from(inp, 1, <<>>)

\* ---- calc_huff (main.rs 158-188) ----------------------------------------
\* the for loop: one Leaf pushed per table entry
PushLeaves(n) == [i \in 1..Len(n) |-> LeafNode(n[i][2], n[i][1])]

\* a merge that records only the first child's weight
MergedNodeMut(n0, n1) == InternalNode(n0, n1, weight(n0))

\* the Internal node built in one iteration of the while loop (lines 177-182)
MergedNode(n0, n1) == InternalNode(n0, n1, weight(n0) + weight(n1))

\* ---- Huffman::compress / huff_compress (main.rs 236-260) -----------------
\* HashMap::insert
Insert(m, k, v) == [x \in (DOMAIN m) \cup {k} |-> IF x = k THEN v ELSE m[x]]

EmptyMap == [x \in {} |-> <<>>]

LeftCode(code) == Append(code, 0)

\* a right descent that pushes the left bit
RightCodeMut(code) == Append(code, 0)

RightCode(code) == Append(code, 1)

RECURSIVE huff_compress(_, _, _)
huff_compress(codes, n, code) ==
    IF IsInternal(n) THEN
        LET c1 == IF n.left # NoneNode
                  THEN huff_compress(codes, n.left, LeftCode(code))
                  ELSE codes
        IN  IF n.right # NoneNode
            THEN huff_compress(c1, n.right, RightCode(code))
            ELSE c1
    ELSE Insert(codes, n.symb, code)

\* ---- Huffman::get_compressed (main.rs 262-270) --------------------------
RECURSIVE Extend(_, _, _)
Extend(codes, inp, k) ==
    IF k > Len(inp) THEN <<>>
    ELSE codes[inp[k]] \o Extend(codes, inp, k + 1)

\* every char_codes.get(&char).unwrap() succeeds
AllCoded(codes, inp) == \A k \in 1..Len(inp) : inp[k] \in DOMAIN codes

get_compressed(codes, inp) == Extend(codes, inp, 1)

\* ---- Huffman::decompress (main.rs 272-298) ------------------------------
\* a walk with the two branches exchanged
DescendMut(cur, val) ==
    IF val = 0
    THEN IF IsInternal(cur) /\ cur.right # NoneNode THEN cur.right ELSE cur
    ELSE IF IsInternal(cur) /\ cur.left # NoneNode THEN cur.left ELSE cur

\* lines 277-289: the move made on one payload value
Descend(cur, val) ==
    IF val = 0
    THEN IF IsInternal(cur) /\ cur.left # NoneNode THEN cur.left ELSE cur
    ELSE IF IsInternal(cur) /\ cur.right # NoneNode THEN cur.right ELSE cur

\* ---- NodeBytes::as_bytes_rec (main.rs 84-102) ---------------------------
\* char as u8
AsU8(c) == c % 256

RECURSIVE as_bytes_rec(_)
as_bytes_rec(n) ==
    IF IsInternal(n) THEN
        (IF n.left # NoneNode THEN <<0>> \o as_bytes_rec(n.left) ELSE <<>>)
        \o (IF n.right # NoneNode THEN <<0>> \o as_bytes_rec(n.right) ELSE <<>>)
    ELSE <<1, AsU8(n.symb)>>

\* ---- NodeBytes::into_node (main.rs 104-131) -----------------------------
\* first while loop: a Leaf of weight 0 per marker byte 1; ok is FALSE when
\* bytes_iter.next().unwrap() finds no byte after the marker
RECURSIVE ParseLeaves(_, _, _)
ParseLeaves(bs, k, acc) ==
    IF k > Len(bs) THEN [ok |-> TRUE, nodes |-> acc]
    ELSE IF bs[k] = 1
         THEN IF k + 1 > Len(bs) THEN [ok |-> FALSE, nodes |-> acc]
              ELSE ParseLeaves(bs, k + 2, Append(acc, LeafNode(0, bs[k + 1])))
         ELSE ParseLeaves(bs, k + 1, acc)

IntoNodeMerged(n0, n1) == InternalNode(n0, n1, weight(n0) + weight(n1))

\* the placeholder node of From<Vec<u8>>, and the unset fields of the model
PlaceholderNode == InternalNode(NoneNode, NoneNode, 0)

\* ---- inputs -------------------------------------------------------------
Strings == UNION {[1..n -> Alphabet] : n \in 0..MaxLen}

\* frequency tables: distinct symbols in first-seen order, counts 1..MaxCount
Tables ==
    {t \in UNION {[1..k -> Alphabet \X (1..MaxCount)] : k \in 0..NumSymbols} :
        \A i, j \in 1..Len(t) : i # j => t[i][1] # t[j][1]}

RECURSIVE Expand(_, _)
Expand(t, i) ==
    IF i > Len(t) THEN <<>>
    ELSE [k \in 1..t[i][2] |-> t[i][1]] \o Expand(t, i + 1)

\* one input per frequency table: each symbol's occurrences in one run
RunStrings == {Expand(t, 1) : t \in Tables}

\* ---- state --------------------------------------------------------------
VARIABLES
    pc,            \* position of the driver (main / tests) in its call sequence
    input,         \* Huffman.input
    freqs,         \* calc_freq's result, calc_huff's argument n
    set,           \* calc_huff: the BinaryHeap
    node0,         \* calc_huff: first node popped in the last iteration
    node1,         \* calc_huff: second node popped in the last iteration
    tree,          \* Huffman.tree
    char_codes,    \* Huffman.char_codes
    encoded,       \* the Vec returned by get_compressed
    compressed,    \* decompress: its argument
    pos,           \* decompress: index of the next value of compressed
    current_node,  \* decompress: the cursor
    result,        \* decompress: the output string
    bytes,         \* NodeBytes.bytes
    nodes,         \* into_node: the BinaryHeap
    node           \* NodeBytes.node

vars == <<pc, input, freqs, set, node0, node1, tree, char_codes, encoded,
          compressed, pos, current_node, result, bytes, nodes, node>>

huffVars == <<input, freqs, set, node0, node1, tree>>

decVars == <<compressed, pos, current_node, result>>

codecVars == <<bytes, nodes, node>>

InitWith(S) ==
    /\ input \in S
    /\ pc = "from_input"
    /\ freqs = <<>>
    /\ set = <<>>
    /\ node0 = NoneNode
    /\ node1 = NoneNode
    /\ tree = NoneNode
    /\ char_codes = EmptyMap
    /\ encoded = <<>>
    /\ compressed = <<>>
    /\ pos = 1
    /\ current_node = NoneNode
    /\ result = <<>>
    /\ bytes = <<>>
    /\ nodes = <<>>
    /\ node = PlaceholderNode

Init == InitWith(Strings)

\* ---- Huffman::from_input -> calc_freq, calc_huff ------------------------
\* from_input line 227: calc_freq(input.clone())
CalcFreq ==
    /\ pc = "from_input"
    /\ freqs' = calc_freq(input)
    /\ pc' = "calc_huff"
    /\ UNCHANGED <<input, set, node0, node1, tree, char_codes, encoded>>
    /\ UNCHANGED decVars
    /\ UNCHANGED codecVars

\* calc_huff lines 159-169
CalcHuffPush ==
    /\ pc = "calc_huff"
    /\ set' = PushLeaves(freqs)
    /\ pc' = "merge"
    /\ UNCHANGED <<input, freqs, node0, node1, tree, char_codes, encoded>>
    /\ UNCHANGED decVars
    /\ UNCHANGED codecVars

\* calc_huff lines 171-185: one iteration of the while loop
CalcHuffMerge ==
    /\ pc = "merge"
    /\ Len(set) > 1
    /\ LET n0 == HeapTop(set)
           r0 == HeapRest(set)
           n1 == HeapTop(r0)
           r1 == HeapRest(r0)
       IN  /\ node0' = n0
           /\ node1' = n1
           /\ set' = Append(r1, MergedNode(n0, n1))
    /\ UNCHANGED <<pc, input, freqs, tree, char_codes, encoded>>
    /\ UNCHANGED decVars
    /\ UNCHANGED codecVars

\* calc_huff line 187 and from_input lines 229-233: set.pop().unwrap() panics
\* on an empty heap
CalcHuffReturn ==
    /\ pc = "merge"
    /\ Len(set) <= 1
    /\ IF Len(set) = 0
       THEN /\ pc' = "panic"
            /\ UNCHANGED <<set, tree>>
       ELSE /\ tree' = HeapTop(set)
            /\ set' = HeapRest(set)
            /\ pc' = "built"
    /\ UNCHANGED <<input, freqs, node0, node1, char_codes, encoded>>
    /\ UNCHANGED decVars
    /\ UNCHANGED codecVars

\* ---- Huffman::compress --------------------------------------------------
Compress ==
    /\ pc = "built"
    /\ char_codes' = huff_compress(char_codes, tree, <<>>)
    /\ pc' = "compressed"
    /\ UNCHANGED huffVars
    /\ UNCHANGED encoded
    /\ UNCHANGED decVars
    /\ UNCHANGED codecVars

\* ---- Huffman::get_compressed --------------------------------------------
\* called with or without a preceding compress(); unwrap() panics on a
\* symbol that has no code
GetCompressed ==
    /\ pc \in {"built", "compressed"}
    /\ IF AllCoded(char_codes, input)
       THEN /\ encoded' = get_compressed(char_codes, input)
            /\ pc' = "encoded"
       ELSE /\ pc' = "panic"
            /\ UNCHANGED encoded
    /\ UNCHANGED huffVars
    /\ UNCHANGED char_codes
    /\ UNCHANGED decVars
    /\ UNCHANGED codecVars

\* ---- Huffman::decompress ------------------------------------------------
\* the payloads handed to decompress: what get_compressed produces for this
\* input under this tree (tests::decompress_huff passes it to a Huffman that
\* never ran compress), and every truncation of it
Payload == get_compressed(huff_compress(EmptyMap, tree, <<>>), input)

Payloads == {SubSeq(Payload, 1, k) : k \in 0..Len(Payload)}

\* lines 273-274
DecompressCall ==
    /\ pc \in {"built", "encoded"}
    /\ \E c \in Payloads :
          /\ pc = "built" => c = Payload
          /\ compressed' = c
    /\ result' = <<>>
    /\ current_node' = tree
    /\ pos' = 1
    /\ pc' = "decompress"
    /\ UNCHANGED huffVars
    /\ UNCHANGED <<char_codes, encoded>>
    /\ UNCHANGED codecVars

\* lines 276-295: one iteration of the for loop
DecompressStep ==
    /\ pc = "decompress"
    /\ pos <= Len(compressed)
    /\ LET cur == Descend(current_node, compressed[pos])
       IN  IF IsLeaf(cur)
           THEN /\ result' = Append(result, cur.symb)
                /\ current_node' = tree
           ELSE /\ current_node' = cur
                /\ UNCHANGED result
    /\ pos' = pos + 1
    /\ UNCHANGED <<pc, compressed>>
    /\ UNCHANGED huffVars
    /\ UNCHANGED <<char_codes, encoded>>
    /\ UNCHANGED codecVars

\* line 297
DecompressReturn ==
    /\ pc = "decompress"
    /\ pos > Len(compressed)
    /\ pc' = "done"
    /\ UNCHANGED decVars
    /\ UNCHANGED huffVars
    /\ UNCHANGED <<char_codes, encoded>>
    /\ UNCHANGED codecVars

\* ---- NodeBytes ----------------------------------------------------------
\* main lines 338-340: NodeBytes::from(huffman.clone()) then as_bytes()
AsBytes ==
    /\ pc = "compressed"
    /\ node' = tree
    /\ bytes' = as_bytes_rec(tree)
    /\ pc' = "as_bytes"
    /\ UNCHANGED nodes
    /\ UNCHANGED huffVars
    /\ UNCHANGED <<char_codes, encoded>>
    /\ UNCHANGED decVars

\* NodeBytes::from(Vec<u8>) lines 61-72 and into_node lines 105-114
FromBytes ==
    /\ pc = "as_bytes"
    /\ LET p == ParseLeaves(bytes, 1, <<>>)
       IN  IF p.ok
           THEN /\ nodes' = p.nodes
                /\ pc' = "into_node"
           ELSE /\ pc' = "panic"
                /\ UNCHANGED nodes
    /\ node' = PlaceholderNode
    /\ UNCHANGED bytes
    /\ UNCHANGED huffVars
    /\ UNCHANGED <<char_codes, encoded>>
    /\ UNCHANGED decVars

\* into_node lines 115-128: one iteration of the while loop
IntoNodeMerge ==
    /\ pc = "into_node"
    /\ Len(nodes) > 1
    /\ LET n0 == HeapTop(nodes)
           r0 == HeapRest(nodes)
           n1 == HeapTop(r0)
           r1 == HeapRest(r0)
       IN  nodes' = Append(r1, IntoNodeMerged(n0, n1))
    /\ UNCHANGED <<pc, bytes, node>>
    /\ UNCHANGED huffVars
    /\ UNCHANGED <<char_codes, encoded>>
    /\ UNCHANGED decVars

\* into_node line 130
IntoNodeReturn ==
    /\ pc = "into_node"
    /\ Len(nodes) <= 1
    /\ IF Len(nodes) = 0
       THEN /\ pc' = "panic"
            /\ UNCHANGED <<nodes, node>>
       ELSE /\ node' = HeapTop(nodes)
            /\ nodes' = HeapRest(nodes)
            /\ pc' = "decoded"
    /\ UNCHANGED bytes
    /\ UNCHANGED huffVars
    /\ UNCHANGED <<char_codes, encoded>>
    /\ UNCHANGED decVars

Next ==
    \/ CalcFreq
    \/ CalcHuffPush
    \/ CalcHuffMerge
    \/ CalcHuffReturn
    \/ Compress
    \/ GetCompressed
    \/ DecompressCall
    \/ DecompressStep
    \/ DecompressReturn
    \/ AsBytes
    \/ FromBytes
    \/ IntoNodeMerge
    \/ IntoNodeReturn

Spec == Init /\ [][Next]_vars

InitRuns == InitWith(RunStrings)

SpecRuns == InitRuns /\ [][Next]_vars

\* ---- properties ---------------------------------------------------------
Distinct(inp) == {inp[k] : k \in 1..Len(inp)}

IsPrefix(s, t) == Len(s) <= Len(t) /\ SubSeq(t, 1, Len(s)) = s

RECURSIVE WeightOK(_)
WeightOK(n) ==
    IF IsInternal(n)
    THEN /\ weight(n) = weight(n.left) + weight(n.right)
         /\ WeightOK(n.left)
         /\ WeightOK(n.right)
    ELSE TRUE

RECURSIVE Leaves(_)
Leaves(n) == IF IsInternal(n) THEN Leaves(n.left) + Leaves(n.right) ELSE 1

\* compress() has run on this Huffman
AfterCompress == pc \in {"compressed", "encoded", "as_bytes", "into_node", "decoded"}

\* C1: after from_input(S), compress() and get_compressed(), decompress of the
\* returned bits gives back S, for every non-empty S, a single repeated symbol
\* included.
C1_RoundTrip ==
    (pc = "done" /\ DOMAIN char_codes # {} /\ compressed = encoded)
        => result = input

\* C2: building a tree from an empty input does not panic (it yields an
\* EmptyInputError value).
C2_EmptyInputNoPanic == ~(pc = "panic" /\ input = <<>> /\ freqs = <<>>)

\* C3: for an input with exactly one distinct symbol the tree is a single Leaf,
\* the symbol's code is the one bit 0, and get_compressed() returns one 0 per
\* input symbol.
C3_SingleSymbolCode ==
    (pc = "encoded" /\ Cardinality(Distinct(input)) = 1)
        => /\ IsLeaf(tree)
           /\ char_codes[input[1]] = <<0>>
           /\ encoded = [k \in 1..Len(input) |-> 0]

\* C4: decompress never returns a string when the bits run out with the cursor
\* at an Internal node other than the root.
C4_TruncatedPayload ==
    ~(pc = "done" /\ IsInternal(current_node) /\ current_node # tree)

\* C5: of two leaves of equal weight popped in one iteration of calc_huff, the
\* one popped first (the left / 0 child) is the one whose symbol was seen first
\* in the input.
C5_TieBreakFirstSeen ==
    (IsLeaf(node0) /\ IsLeaf(node1) /\ weight(node0) = weight(node1))
        => Position(freqs, node0.symb) < Position(freqs, node1.symb)

\* C6: after compress() the code table has one code per distinct input symbol,
\* no two symbols share a code, and no symbol's code is a prefix of another's.
C6_PrefixCode ==
    AfterCompress =>
        /\ DOMAIN char_codes = Distinct(input)
        /\ \A a, b \in DOMAIN char_codes :
              a # b => /\ char_codes[a] # char_codes[b]
                       /\ ~IsPrefix(char_codes[a], char_codes[b])

C6_Witness ==
    /\ pc = "compressed"
    /\ Cardinality(DOMAIN char_codes) >= 3
    /\ \E a, b \in DOMAIN char_codes : Len(char_codes[a]) < Len(char_codes[b])

\* C7: after every merge step every Internal node in the queue weighs the sum
\* of its two children, and the root returned weighs the length of the input.
C7_WeightInvariant ==
    /\ pc = "merge" => \A i \in 1..Len(set) : WeightOK(set[i])
    /\ pc = "built" => WeightOK(tree) /\ weight(tree) = Len(input)

C7_Witness ==
    /\ pc = "built"
    /\ Leaves(tree) >= 3
    /\ weight(tree) = Len(input)
    /\ Len(input) > Leaves(tree)

\* C8: the tree deserialized from the bytes as_bytes wrote puts every symbol at
\* the same root-to-leaf path as the tree that was serialized.
C8_TreeCodecRoundTrip ==
    pc = "decoded" =>
        huff_compress(EmptyMap, node, <<>>) = huff_compress(EmptyMap, tree, <<>>)

\* C9: after an iteration of the merge loop no node left in the queue weighs
\* less than either of the two nodes the iteration popped.
C9_MinWeightMerge ==
    (pc = "merge" /\ node0 # NoneNode) =>
        \A i \in 1..(Len(set) - 1) :
            /\ weight(set[i]) >= weight(node0)
            /\ weight(set[i]) >= weight(node1)

\* C10: for an input with at least two distinct symbols, decompress of the bits
\* get_compressed produces ends at the root and returns exactly the input,
\* whether or not compress() filled char_codes on the decoding Huffman.
C10_DecodeWalk ==
    (pc = "done" /\ Cardinality(Distinct(input)) >= 2 /\ compressed = Payload)
        => /\ result = input
           /\ current_node = tree

C10_Witness ==
    /\ pc = "done"
    /\ Cardinality(Distinct(input)) >= 3
    /\ compressed = Payload
    /\ DOMAIN char_codes = {}
    /\ result = input

====
